---- MODULE Spec2Model ----
(***************************************************************************)
(* A model of streamlit_stock_app.py: the market-cap formatter, the        *)
(* per-ticker fetch with its time-to-live cache, the two indicators that   *)
(* get_stock_data surfaces, the ticker parser of main, the sequential      *)
(* loop of build_dashboard and the fallback queries of                     *)
(* get_wikipedia_summary.                                                  *)
(*                                                                         *)
(* Text is a sequence of one-character strings, so that formatting,        *)
(* trimming, upper-casing and splitting are computed character by          *)
(* character.  A market capitalisation, which does not fit a machine word  *)
(* of the checker, is a sequence of decimal digits, most significant       *)
(* first, without leading zeros (zero is <<0>>).                           *)
(***************************************************************************)
EXTENDS Integers, Sequences, FiniteSets, TLC

VARIABLES
    mc_value,     \* format_market_cap: its argument
    mc_text,      \* format_market_cap: its result, or Pending before the call
    close,        \* hist["Close"]: the closing prices of one series, in cents
    ma50_last,    \* the "50-day MA" surfaced for close
    rsi_last,     \* the "RSI" surfaced for close
    ticker_input, \* the text input of the sidebar
    analyze_button, \* the button: TRUE in the run that its click starts
    period,       \* the selected lookback window
    pc,           \* where the script run of main stands
    tickers,      \* main: the parsed tickers
    bd_tickers,   \* build_dashboard: its tickers, cut to the first 10
    loop_i,       \* build_dashboard: the loop iterations completed (i)
    all_data,     \* build_dashboard: the results collected
    progress_bar, \* the value shown by st.progress, <<>> once emptied
    status_text,  \* the ticker named by the status line, <<>> once emptied
    ui,           \* the elements displayed by this run, in order
    cache,        \* st.cache_data of get_stock_data: the stored entries
    clock,        \* seconds since the start
    provider_calls, \* the executions of get_stock_data's body so far
    call_log,     \* every call of get_stock_data so far, in order
    run_start,    \* the length of call_log when this run started
    wiki_pc,      \* where the call of get_wikipedia_summary stands
    wiki_ticker,  \* get_wikipedia_summary: its argument
    company_name, \* get_wikipedia_summary: the company name, <<>> if unknown
    search_terms, \* get_wikipedia_summary: the terms to try
    term_i,       \* the position of the loop over search_terms
    options,      \* e.options of the disambiguation being handled
    option_i,     \* the position of the loop over e.options
    wiki_queries, \* the calls of wikipedia.summary so far, in order
    wiki_summary  \* the value returned, or Pending before the return

fmtVars == <<mc_value, mc_text>>
indVars == <<close, ma50_last, rsi_last>>
widgetVars == <<ticker_input, analyze_button, period>>
runVars == <<pc, tickers, bd_tickers, loop_i, all_data, progress_bar,
             status_text, ui, run_start>>
fetchVars == <<cache, provider_calls, call_log>>
appVars == <<widgetVars, runVars, fetchVars, clock>>
wikiVars == <<wiki_pc, wiki_ticker, company_name, search_terms, term_i,
              options, option_i, wiki_queries, wiki_summary>>
vars == <<mc_value, mc_text, close, ma50_last, rsi_last, ticker_input,
          analyze_button, period, pc, tickers, bd_tickers, loop_i, all_data,
          progress_bar, status_text, ui, cache, clock, provider_calls,
          call_log, run_start, wiki_pc, wiki_ticker, company_name,
          search_terms, term_i, options, option_i, wiki_queries,
          wiki_summary>>

\* A text result that has not been computed yet.
Pending == <<"pending">>

\* Python's None where a number is expected: the digit sequence without digits.
None == <<>>

(***************************************************************************)
(* Decimal digit sequences.                                                *)
(***************************************************************************)
DigitChars == <<"0", "1", "2", "3", "4", "5", "6", "7", "8", "9">>

\* str() of the digits of a number.
DigitsToText(ds) == [k \in 1..Len(ds) |-> DigitChars[ds[k] + 1]]

\* The digits of a natural number that fits a machine word.
RECURSIVE NatDigits(_)
NatDigits(n) == IF n < 10 THEN <<n>> ELSE Append(NatDigits(n \div 10), n % 10)

\* The value of a short digit sequence.
RECURSIVE DigitsNat(_)
DigitsNat(ds) ==
    IF ds = <<>> THEN 0
    ELSE 10 * DigitsNat(SubSeq(ds, 1, Len(ds) - 1)) + ds[Len(ds)]

\* ds + 1, with the carry.
RECURSIVE IncDigits(_)
IncDigits(ds) ==
    IF ds = <<>> THEN <<1>>
    ELSE IF ds[Len(ds)] < 9
         THEN [ds EXCEPT ![Len(ds)] = @ + 1]
         ELSE Append(IncDigits(SubSeq(ds, 1, Len(ds) - 1)), 0)

AllZero(ds) == \A k \in 1..Len(ds) : ds[k] = 0

IsZero(value) == value = <<0>>

(***************************************************************************)
(* format_market_cap                                                       *)
(***************************************************************************)
\* The scaled value in hundredths before rounding: value / 10^e keeps the
\* digits down to 10^(e-2) and drops the e-2 digits below them.
KeptDigits(value, e) == SubSeq(value, 1, Len(value) - (e - 2))
DroppedDigits(value, e) == SubSeq(value, Len(value) - (e - 2) + 1, Len(value))

\* The exact quotient lies half-way between two values of two decimals.
IsTie(value, e) ==
    LET d == DroppedDigits(value, e)
    IN  d[1] = 5 /\ AllZero(SubSeq(d, 2, Len(d)))

\* A half-way quotient (2h+1)/200 is a binary fraction, hence the double that
\* value / 10^e yields, exactly when 25 divides 2h+1.  Any other half-way
\* quotient is formatted from a double that lies to one side of it, the side
\* depending on the representation error of that quotient: MarketCaps below
\* holds none of those.
IsExactTie(value, e) ==
    IsTie(value, e) /\ (2 * DigitsNat(KeptDigits(value, e)) + 1) % 25 = 0

\* f"{value / 10^e:.2f}": the quotient's hundredths, rounded to nearest, an
\* exact tie to the even hundredth.
RoundedHundredths(value, e) ==
    LET kept == KeptDigits(value, e)
        d    == DroppedDigits(value, e)
        up   == \/ d[1] > 5
                \/ d[1] = 5 /\ ~AllZero(SubSeq(d, 2, Len(d)))
                \/ IsTie(value, e) /\ kept[Len(kept)] % 2 = 1
    IN  IF up THEN IncDigits(kept) ELSE kept

\* The text of a number of hundredths with its decimal point: "2.50".
TwoDecimals(h) ==
    LET p == IF Len(h) < 3 THEN [k \in 1..(3 - Len(h)) |-> 0] \o h ELSE h
    IN  DigitsToText(SubSeq(p, 1, Len(p) - 2)) \o <<".">>
        \o DigitsToText(SubSeq(p, Len(p) - 1, Len(p)))

\* A grouping that forgets the separators.
CommaGrouped_NoComma(ds) == DigitsToText(ds)

\* f"{value:,.0f}" of an integer: its digits in groups of three.
RECURSIVE CommaGrouped(_)
CommaGrouped(ds) ==
    IF Len(ds) <= 3 THEN DigitsToText(ds)
    ELSE CommaGrouped(SubSeq(ds, 1, Len(ds) - 3)) \o <<",">>
         \o DigitsToText(SubSeq(ds, Len(ds) - 2, Len(ds)))

\* value >= 10^e, for a digit sequence without leading zeros.
AtLeastPow10(value, e) == Len(value) >= e + 1

Scaled(value, e, suffix) ==
    <<"$">> \o TwoDecimals(RoundedHundredths(value, e)) \o <<suffix>>

NA == <<"N", "/", "A">>

\* The formatter with a strict comparison at the millions threshold.
format_market_cap_StrictM(value) ==
    IF value = None \/ IsZero(value) THEN NA
    ELSE IF AtLeastPow10(value, 12) THEN Scaled(value, 12, "T")
    ELSE IF AtLeastPow10(value, 9) THEN Scaled(value, 9, "B")
    ELSE IF AtLeastPow10(value, 6) /\ value # <<1, 0, 0, 0, 0, 0, 0>>
         THEN Scaled(value, 6, "M")
    ELSE <<"$">> \o CommaGrouped(value)

format_market_cap(value) ==
    IF value = None \/ IsZero(value) THEN NA
    ELSE IF AtLeastPow10(value, 12) THEN Scaled(value, 12, "T")
    ELSE IF AtLeastPow10(value, 9) THEN Scaled(value, 9, "B")
    ELSE IF AtLeastPow10(value, 6) THEN Scaled(value, 6, "M")
    ELSE <<"$">> \o CommaGrouped(value)

(***************************************************************************)
(* Wide naturals: <<hi, mid, lo>> stands for hi * B^2 + mid * B + lo with  *)
(* B = 10^8, which holds the scaled averages of the oscillator (below      *)
(* 10^24) and lets a limb be multiplied by a factor up to 20 in a machine  *)
(* word.                                                                   *)
(***************************************************************************)
WBase == 10000 * 10000

WNat(n) == <<0, n \div WBase, n % WBase>>
WZero == <<0, 0, 0>>
WOne == <<0, 0, 1>>

\* a * k for a factor k of at most 20.
WMul(a, k) ==
    LET p3 == a[3] * k
        p2 == a[2] * k + p3 \div WBase
        p1 == a[1] * k + p2 \div WBase
    IN  <<p1, p2 % WBase, p3 % WBase>>

WAdd(a, b) ==
    LET p3 == a[3] + b[3]
        p2 == a[2] + b[2] + p3 \div WBase
        p1 == a[1] + b[1] + p2 \div WBase
    IN  <<p1, p2 % WBase, p3 % WBase>>

\* a <= b
WLE(a, b) ==
    \/ a[1] < b[1]
    \/ a[1] = b[1] /\ a[2] < b[2]
    \/ a[1] = b[1] /\ a[2] = b[2] /\ a[3] <= b[3]

(***************************************************************************)
(* The indicators of get_stock_data.  A value of a pandas column is a      *)
(* record: kind "nan" where the value is missing, kind "num" with the      *)
(* exact fraction num/den otherwise (num and den are wide naturals).       *)
(***************************************************************************)
NaNValue == [kind |-> "nan", num |-> WZero, den |-> WOne]
NoneValue == [kind |-> "none", num |-> WZero, den |-> WOne]
PendingValue == [kind |-> "pending", num |-> WZero, den |-> WOne]
Num(n, d) == [kind |-> "num", num |-> n, den |-> d]

MA_WINDOW == 50
RSI_WINDOW == 14

\* xs[lo] + ... + xs[hi]
RECURSIVE WindowSum(_, _, _)
WindowSum(xs, lo, hi) ==
    IF lo > hi THEN 0
    ELSE IF lo = hi THEN xs[lo]
    ELSE LET mid == (lo + hi) \div 2
         IN  WindowSum(xs, lo, mid) + WindowSum(xs, mid + 1, hi)

\* A rolling mean whose window starts one row late.
RollingMean_WindowShort(xs, w) ==
    [i \in 1..Len(xs) |->
        IF i >= w THEN Num(WNat(WindowSum(xs, i - w + 2, i)), WNat(w))
        ELSE NaNValue]

\* Series.rolling(w).mean(): at row i the mean of the w values that end at
\* row i, missing before the w-th row (min_periods defaults to w).
RollingMean(xs, w) ==
    [i \in 1..Len(xs) |->
        IF i >= w THEN Num(WNat(WindowSum(xs, i - w + 1, i)), WNat(w))
        ELSE NaNValue]

\* col.isna().all()
AllNaN(col) == \A i \in 1..Len(col) : col[i].kind = "nan"

\* col.iloc[-1] if not col.isna().all() else None
Surfaced(col) == IF ~AllNaN(col) THEN col[Len(col)] ELSE NoneValue

\* close.diff(1), then diff.where(diff > 0, 0.0) and -diff.where(diff < 0, 0.0)
\* (RSIIndicator._run): the first difference is missing and counts as 0.
UpDirection(xs) ==
    [i \in 1..Len(xs) |->
        IF i > 1 /\ xs[i] - xs[i - 1] > 0 THEN xs[i] - xs[i - 1] ELSE 0]
DownDirection(xs) ==
    [i \in 1..Len(xs) |->
        IF i > 1 /\ xs[i] - xs[i - 1] < 0 THEN xs[i - 1] - xs[i] ELSE 0]

\* ewm(alpha = 1/w, adjust = False).mean(): y[1] = x[1] and
\* y[i] = ((w-1) * y[i-1] + x[i]) / w.  Ewm gives, for each position i up to
\* n, the scale p = w^(i-1) and the scaled average y = p * y[i], which obey
\* Y[1] = x[1], Y[i] = (w-1) * Y[i-1] + w^(i-2) * x[i].
EwmStep(prev, w, x) ==
    [y |-> WAdd(WMul(prev.y, w - 1), WMul(prev.p, x)), p |-> WMul(prev.p, w)]

RECURSIVE Ewm(_, _, _)
Ewm(xs, w, n) ==
    IF n = 1 THEN <<[y |-> WNat(xs[1]), p |-> WOne]>>
    ELSE LET prev == Ewm(xs, w, n - 1)
         IN  Append(prev, EwmStep(prev[n - 1], w, xs[n]))

\* The oscillator at position i: missing before the minp-th observation;
\* 100 where the smoothed loss is 0; otherwise 100 - 100 / (1 + up/dn),
\* which is 100 * up / (up + dn), the common scale of both averages
\* cancelling.
RsiAt(xs, w, minp, i) ==
    IF i < minp THEN NaNValue
    ELSE LET up == Ewm(UpDirection(xs), w, i)[i].y
             dn == Ewm(DownDirection(xs), w, i)[i].y
         IN  IF dn = WZero THEN Num(WNat(100), WOne)
             ELSE Num(WMul(WMul(up, 10), 10), WAdd(up, dn))

\* An oscillator defined one observation early.
RSIIndicator_MinPeriodsShort(xs, w) ==
    [i \in 1..Len(xs) |-> RsiAt(xs, w, w - 1, i)]

\* RSIIndicator(close, w).rsi(), with min_periods = w (fillna is False).
RSIIndicator(xs, w) == [i \in 1..Len(xs) |-> RsiAt(xs, w, w, i)]

(***************************************************************************)
(* Text operations of main and build_dashboard.                            *)
(***************************************************************************)
Whitespace == {" "}

\* str.upper() on the letters that the inputs use.
UpperChar(c) ==
    CASE c = "a" -> "A"
      [] c = "b" -> "B"
      [] c = "c" -> "C"
      [] OTHER -> c

upper(text) == [k \in 1..Len(text) |-> UpperChar(text[k])]

\* str.strip(): the text between its first and its last non-blank character.
strip(text) ==
    LET solid == {k \in 1..Len(text) : text[k] \notin Whitespace}
    IN  IF solid = {} THEN <<>>
        ELSE SubSeq(text, CHOOSE k \in solid : \A j \in solid : k <= j,
                          CHOOSE k \in solid : \A j \in solid : k >= j)

\* str.split(sep): the pieces between the separators; "" gives [""].  The
\* pieces of a text are those of its two halves, with the last piece of the
\* first half continued by the first piece of the second.
RECURSIVE split(_, _)
split(text, sep) ==
    IF text = <<>> THEN << <<>> >>
    ELSE IF Len(text) = 1
        THEN IF text[1] = sep THEN << <<>>, <<>> >> ELSE <<text>>
    ELSE LET half  == Len(text) \div 2
             left  == split(SubSeq(text, 1, half), sep)
             right == split(SubSeq(text, half + 1, Len(text)), sep)
         IN  SubSeq(left, 1, Len(left) - 1)
                 \o << left[Len(left)] \o right[1] >> \o Tail(right)

NonBlank(piece) == strip(piece) # <<>>

\* main, line 394:
\* [ticker.strip().upper() for ticker in ticker_input.split(",") if ticker.strip()]
ParseTickers(text) ==
    LET kept == SelectSeq(split(text, ","), NonBlank)
    IN  [k \in 1..Len(kept) |-> upper(strip(kept[k]))]

MAX_STOCKS == 10

(***************************************************************************)
(* The values drawn.                                                       *)
(***************************************************************************)
\* Market capitalisations: up to MaxLead leading digits followed by up to
\* MaxFill copies of one filling digit.
MaxLead == 3
MaxFill == 11

LeadDigits == {0, 1, 2, 3, 4, 5, 7, 9}
FillDigits == {0, 9}

LeadSeqs ==
    UNION {{ds \in [1..n -> LeadDigits] : ds[1] # 0} : n \in 1..MaxLead}

\* Values that are half-way quotients and binary fractions: 1.125, 1.375,
\* 2.625 and 1.875 of their unit.
ExactTies ==
    { <<1, 1, 2, 5, 0, 0, 0>>, <<1, 3, 7, 5, 0, 0, 0>>,
      <<2, 6, 2, 5, 0, 0, 0, 0, 0, 0>>,
      <<1, 8, 7, 5, 0, 0, 0, 0, 0, 0, 0, 0, 0>> }

HasInexactTie(value) ==
    \E e \in {6, 9, 12} :
        /\ AtLeastPow10(value, e)
        /\ e = 12 \/ ~AtLeastPow10(value, e + 3)
        /\ IsTie(value, e) /\ ~IsExactTie(value, e)

MarketCaps ==
    {None, <<0>>} \cup ExactTies \cup
    { v \in { l \o [k \in 1..m |-> f] :
                 l \in LeadSeqs, m \in 0..MaxFill, f \in FillDigits } :
        ~HasInexactTie(v) }

\* Price series: close[i] = PriceBase + sign * ((i * s) % m).
MaxCloses == 52
MaxRsiCloses == 16
PriceBase == 500

Steps == 0..3
Moduli == {3, 7, 100}
Signs == {1, -1}

SeriesOf(n, s, m, sign) == [k \in 1..n |-> PriceBase + sign * ((k * s) % m)]

MASeries ==
    { SeriesOf(n, s, m, sign) :
        n \in (1..3) \cup ((MA_WINDOW - 3)..MaxCloses),
        s \in Steps, m \in Moduli, sign \in Signs }

RSISeries ==
    { SeriesOf(n, s, m, sign) :
        n \in 1..MaxRsiCloses, s \in Steps, m \in Moduli, sign \in Signs }

\* Input texts: pieces joined by commas.
RECURSIVE Join(_)
Join(pieces) ==
    IF pieces = <<>> THEN <<>>
    ELSE IF Len(pieces) = 1 THEN pieces[1]
    ELSE pieces[1] \o <<",">> \o Join(Tail(pieces))

\* The default of the text input, three tickers (line 365).
DefaultInput == Join(<< <<"a">>, <<"b">>, <<"c">> >>)

\* The session: the runs after the first draw one of these texts, as long
\* as the session makes no more than MaxCalls calls of get_stock_data.  (The
\* texts without a ticker are drawn by ParseInputs below.)
MaxCalls == 5
Inputs ==
    { <<"a">>, Join(<< <<"c">>, <<" ", "A", " ">> >>) }

\* The clock advances by TickSeconds up to MaxClock.
TickSeconds == 150
MaxClock == 300

\* One run: a head of up to MaxHead pieces, then up to MaxTail copies of one
\* more piece.
MaxHead == 2
MaxTail == 10
HeadPieces == { <<>>, <<" ">>, <<"a">>, <<" ", "b">>, <<"A", "b", " ">> }
TailPieces == { <<"c">>, <<" ">> }

PieceLists ==
    { h \o [k \in 1..n |-> t] :
        h \in UNION {[1..m -> HeadPieces] : m \in 0..MaxHead},
        n \in 0..MaxTail, t \in TailPieces }

ParseInputs == { Join(ps) : ps \in PieceLists }

BatchInputs ==
    { Join(<< <<"a">>, <<"b">>, <<"c">> >>),
      Join(<< <<"b">>, <<" ">>, <<"a">>, <<"b">> >>),
      Join([k \in 1..MAX_STOCKS |-> IF k % 3 = 0 THEN <<"a">> ELSE <<"b">>]),
      Join([k \in 1..(MAX_STOCKS + 2) |->
              IF k = 2 THEN <<"a">> ELSE IF k > MAX_STOCKS THEN <<"c">>
              ELSE <<"b">>]) }

(***************************************************************************)
(* The market-data provider: what yf.Ticker(ticker).info and               *)
(* .history(period) give to one execution of get_stock_data.  The provider *)
(* is outside the program: every execution draws one of these outcomes.    *)
(***************************************************************************)
Info(has, cap) == [has_marketCap |-> has, marketCap |-> cap]

Outcome(raises, info, hist) == [raises |-> raises, info |-> info, close |-> hist]

\* An exception from the provider (network error, malformed answer).
Raises == Outcome(TRUE, Info(FALSE, None), <<>>)
\* An unknown symbol: no exception, an empty price history.
EmptyHistory == Outcome(FALSE, Info(FALSE, None), <<>>)
\* Three closing prices and a market capitalisation of 3.4 billion.
ShortHistory ==
    Outcome(FALSE, Info(TRUE, <<3, 4, 0, 0, 0, 0, 0, 0, 0, 0>>),
            <<500, 502, 501>>)
\* Fourteen closing prices and no market capitalisation.
LongHistory ==
    Outcome(FALSE, Info(FALSE, None),
            [k \in 1..RSI_WINDOW |-> 500 + ((k * 3) % 7)])

ProviderOutcomes == {Raises, EmptyHistory, ShortHistory, LongHistory}

(***************************************************************************)
(* Displayed elements.                                                     *)
(***************************************************************************)
Element(kind, what, arg) == [kind |-> kind, what |-> what, arg |-> arg]

FetchError(ticker) == Element("error", "fetch", ticker)
TruncationWarning(n) == Element("warning", "first_10_only", <<n>>)
NoValidTicker == Element("error", "no_valid_ticker", <<>>)
NoDataDashboard == Element("error", "no_data_build_dashboard", <<>>)
NoDataMain == Element("error", "no_data_main", <<>>)
Success(n) == Element("success", "analyzed", <<n>>)
Table(rows) == Element("table", "fundamentals", rows)
Download(what) == Element("download", what, <<>>)
Chart(what, ticker) == Element("chart", what, ticker)
UncaughtException(what) == Element("exception", what, <<>>)

(***************************************************************************)
(* get_stock_data                                                          *)
(***************************************************************************)
\* The value returned for a failed fetch: Python's None.
NoData ==
    [ok |-> FALSE, Ticker |-> <<>>, MarketCap |-> <<>>, RSI |-> NoneValue,
     MA50 |-> NoneValue, history |-> <<>>, info |-> Info(FALSE, None)]

\* info.get('marketCap', 0)
InfoGetMarketCap(info) == IF info.has_marketCap THEN info.marketCap ELSE <<0>>

\* The body of get_stock_data, lines 91-124, on one outcome of the provider:
\* the value returned and the elements it displays.  The other fields of the
\* dictionary are info.get(...) passed through; info stands for them.
StockDataBody(ticker, per, o) ==
    IF o.raises
        THEN [value |-> NoData, msgs |-> <<FetchError(ticker)>>]
    ELSE IF o.close = <<>>
        THEN [value |-> NoData, msgs |-> <<>>]
    ELSE [value |->
            [ok |-> TRUE,
             Ticker |-> upper(ticker),
             MarketCap |-> format_market_cap(InfoGetMarketCap(o.info)),
             RSI |-> Surfaced(RSIIndicator(o.close, RSI_WINDOW)),
             MA50 |-> Surfaced(RollingMean(o.close, MA_WINDOW)),
             history |-> o.close,
             info |-> o.info],
          msgs |-> <<>>]

\* @st.cache_data(ttl=300): the entries are keyed by the arguments, hold the
\* returned value and the elements displayed by the body (replayed on a
\* hit), and are valid for less than TTL seconds.
TTL == 300

CacheKey(ticker, per) == <<ticker, per>>

\* A lookup that still accepts an entry of exactly TTL seconds.
CacheHits_Inclusive(entries, key, now) ==
    {e \in entries : e.key = key /\ now - e.stored <= TTL}

CacheHits(entries, key, now) ==
    {e \in entries : e.key = key /\ now - e.stored < TTL}

\* A cache that keeps successful results only.
CacheStore_SuccessOnly(entries, key, r, now) ==
    IF r.value.ok
        THEN {e \in entries : e.key # key}
                \cup {[key |-> key, value |-> r.value, msgs |-> r.msgs,
                       stored |-> now]}
    ELSE entries

CacheStore(entries, key, r, now) ==
    {e \in entries : e.key # key}
        \cup {[key |-> key, value |-> r.value, msgs |-> r.msgs, stored |-> now]}

(***************************************************************************)
(* build_dashboard and main                                                *)
(***************************************************************************)
\* The windows drawn, of the six that the selectbox offers.
Periods == {"6mo", "1y"}

\* tickers[:10] after the warning, lines 277-279.
FirstTen_NoCut(parsed) == parsed

FirstTen(parsed) ==
    IF Len(parsed) > MAX_STOCKS THEN SubSeq(parsed, 1, MAX_STOCKS) ELSE parsed

\* The guard of line 392 with the button alone.
MainGuard_ButtonOnly(button, text) == button

\* if analyze_button or ticker_input: an empty text is false.
MainGuard(button, text) == button \/ text # <<>>

\* A collection that puts the newest result first.
Collected_Prepend(data, stock_data) ==
    IF stock_data.ok THEN <<stock_data>> \o data ELSE data

\* A collection that keeps one result per symbol.
Collected_Unique(data, stock_data) ==
    IF stock_data.ok
          /\ \A k \in 1..Len(data) : data[k].Ticker # stock_data.Ticker
        THEN Append(data, stock_data) ELSE data

\* if stock_data: all_data.append(stock_data), lines 292-293.
Collected(data, stock_data) ==
    IF stock_data.ok THEN Append(data, stock_data) ELSE data

\* The rows of the fundamentals table, lines 306-323.
Row(data) ==
    [Ticker |-> data.Ticker, MarketCap |-> data.MarketCap, RSI |-> data.RSI,
     MA50 |-> data.MA50]
Fundamentals(data) == [k \in 1..Len(data) |-> Row(data[k])]

\* What build_dashboard returns: an empty DataFrame (line 303) or the pair
\* of line 325.
BuildDashboardReturn(data) ==
    IF data = <<>>
        THEN [type |-> "DataFrame", columns |-> <<>>, fundamentals |-> <<>>,
              all_data |-> <<>>]
    ELSE [type |-> "tuple", columns |-> <<>>,
          fundamentals |-> Fundamentals(data), all_data |-> data]

\* The values that "fundamentals, all_data = ..." of line 401 iterates: the
\* two items of a pair, the column labels of a DataFrame.
UnpackCount(ret) == IF ret.type = "tuple" THEN 2 ELSE Len(ret.columns)

\* The charts of lines 552-572.
Charts(data) ==
    (IF Len(data) > 1 THEN <<Chart("comparison", <<>>)>> ELSE <<>>)
    \o [k \in 1..Len(data) |-> Chart("price_trend", data[k].Ticker)]

\* main from line 408 on: the success line, the table, the downloads and the
\* charts (the explanatory texts and the company information are left out).
Rendered(fund, data) ==
    <<Success(Len(data)), Table(fund), Download("metrics")>>
    \o (IF Len(data) > 0 THEN <<Download("historical")>> ELSE <<>>)
    \o Charts(data)

\* The user edits the widgets, which starts a script run.
UserInput ==
    /\ pc \in {"done", "crashed"}
    /\ \E text \in Inputs, button \in BOOLEAN, per \in Periods :
          /\ Len(call_log) + Len(FirstTen(ParseTickers(text))) <= MaxCalls
          /\ ticker_input' = text
          /\ analyze_button' = button
          /\ period' = per
    /\ pc' = "ready"
    /\ UNCHANGED <<tickers, bd_tickers, loop_i, all_data, progress_bar,
                   status_text, ui, run_start, fetchVars, clock,
                   fmtVars, indVars, wikiVars>>

\* main up to the loop of build_dashboard: lines 392-401 and 270-284.
MainStart ==
    /\ pc = "ready"
    /\ run_start' = Len(call_log)
    /\ loop_i' = 0
    /\ all_data' = <<>>
    /\ status_text' = <<>>
    /\ IF ~MainGuard(analyze_button, ticker_input)
          THEN /\ tickers' = <<>> /\ bd_tickers' = <<>>
               /\ ui' = <<>> /\ progress_bar' = <<>>
               /\ pc' = "done"
       ELSE LET parsed == ParseTickers(ticker_input)
            IN  /\ tickers' = parsed
                /\ IF parsed = <<>>
                      THEN /\ bd_tickers' = <<>>
                           /\ ui' = <<NoValidTicker>>
                           /\ progress_bar' = <<>>
                           /\ pc' = "done"
                   ELSE /\ bd_tickers' = FirstTen(parsed)
                        /\ ui' = IF Len(parsed) > MAX_STOCKS
                                 THEN <<TruncationWarning(Len(parsed))>>
                                 ELSE <<>>
                        /\ progress_bar' = <<0, 1>>
                        /\ pc' = "loop_top"
    /\ UNCHANGED <<widgetVars, fetchVars, clock, fmtVars, indVars, wikiVars>>

\* A progress value that counts the iterations completed.
ProgressValue_Completed(done, total) == <<done, total>>

\* progress_bar.progress((i + 1) / len(tickers)), line 288: the fraction
\* as numerator and denominator.
ProgressValue(done, total) == <<done + 1, total>>

\* The head of one iteration, lines 286-288: the status line and the
\* progress bar are set before the fetch.
LoopBegin ==
    /\ pc = "loop_top"
    /\ status_text' = upper(strip(bd_tickers[loop_i + 1]))
    /\ progress_bar' = ProgressValue(loop_i, Len(bd_tickers))
    /\ pc' = "fetching"
    /\ UNCHANGED <<widgetVars, tickers, bd_tickers, loop_i, all_data, ui,
                   run_start, fetchVars, clock, fmtVars, indVars, wikiVars>>

\* What one call of get_stock_data leaves behind in build_dashboard.
Iterated(key, r, executed) ==
    /\ ui' = ui \o r.msgs
    /\ all_data' = Collected(all_data, r.value)
    /\ call_log' = Append(call_log, [key |-> key, time |-> clock,
                                     executed |-> executed, value |-> r.value,
                                     msgs |-> r.msgs])
    /\ loop_i' = loop_i + 1
    /\ pc' = IF loop_i + 1 < Len(bd_tickers) THEN "loop_top" ELSE "finish"

\* The rest of the iteration, lines 290-296: the cached call and the append.
\* get_stock_data catches every exception, so the handler of line 294 is
\* never entered.
LoopFetch ==
    /\ pc = "fetching"
    /\ LET key  == CacheKey(upper(strip(bd_tickers[loop_i + 1])), period)
           hits == CacheHits(cache, key, clock)
       IN  \/ /\ hits # {}
              /\ Iterated(key, CHOOSE e \in hits : TRUE, FALSE)
              /\ UNCHANGED <<cache, provider_calls>>
           \/ /\ hits = {}
              /\ \E o \in ProviderOutcomes :
                    LET r == StockDataBody(key[1], key[2], o)
                    IN  /\ Iterated(key, r, TRUE)
                        /\ cache' = CacheStore(cache, key, r, clock)
                        /\ provider_calls' = provider_calls + 1
    /\ UNCHANGED <<widgetVars, tickers, bd_tickers, progress_bar,
                   status_text, run_start, clock, fmtVars, indVars, wikiVars>>

\* The end of build_dashboard, lines 298-325, and main from line 401 on.
MainFinish ==
    /\ pc = "finish"
    /\ progress_bar' = <<>>
    /\ status_text' = <<>>
    /\ LET ret  == BuildDashboardReturn(all_data)
           said == IF all_data = <<>> THEN <<NoDataDashboard>> ELSE <<>>
       IN  IF UnpackCount(ret) # 2
              THEN /\ ui' = ui \o said \o <<UncaughtException("ValueError")>>
                   /\ pc' = "crashed"
           ELSE IF ret.fundamentals = <<>>
              THEN /\ ui' = ui \o said \o <<NoDataMain>>
                   /\ pc' = "done"
           ELSE /\ ui' = ui \o said \o Rendered(ret.fundamentals, ret.all_data)
                /\ pc' = "done"
    /\ UNCHANGED <<widgetVars, tickers, bd_tickers, loop_i, all_data, run_start,
                   fetchVars, clock, fmtVars, indVars, wikiVars>>

\* Time passes.  The clock is read by the cache of get_stock_data only, so
\* it is advanced between the runs and between the iterations of the loop.
Tick ==
    /\ pc \in {"done", "crashed", "loop_top"}
    /\ clock + TickSeconds <= MaxClock
    /\ clock' = clock + TickSeconds
    /\ UNCHANGED <<widgetVars, runVars, fetchVars, fmtVars, indVars, wikiVars>>

(***************************************************************************)
(* get_wikipedia_summary, lines 126-181.  One call is modelled (the        *)
(* decorator's cache concerns repeated calls).  The encyclopedia is        *)
(* outside the program: every query draws its outcome.                     *)
(***************************************************************************)
\* info.get("longName") or info.get("shortName"), or an exception from the
\* market-data provider; an absent name and an empty one are both <<>>.
NameInfo(raises, long, short) ==
    [raises |-> raises, longName |-> long, shortName |-> short]

NameInfos ==
    { NameInfo(TRUE, <<>>, <<>>),
      NameInfo(FALSE, <<"N">>, <<"S">>),
      NameInfo(FALSE, <<>>, <<"S">>),
      NameInfo(FALSE, <<>>, <<>>) }

\* Python's "a or b".
PyOr(a, b) == IF a # <<>> THEN a ELSE b

\* Lines 129-133.
CompanyName(info) ==
    IF info.raises THEN <<>> ELSE PyOr(info.longName, info.shortName)

\* Search terms in which the bare ticker comes first.
SearchTerms_TickerFirst(ticker, name) ==
    << ticker,
       ticker \o <<" ", "s", "t", "o", "c", "k">>,
       ticker \o <<" ", "c", "o", "m", "p", "a", "n", "y">>,
       ticker \o <<" ", "c", "o", "r", "p", "o", "r", "a", "t", "i", "o", "n">> >>

\* Lines 136-153.
SearchTerms(ticker, name) ==
    (IF name # <<>>
        THEN << name \o <<" ", "I", "n", "c">>,
                name \o <<" ", "C", "o", "r", "p", "o", "r", "a", "t", "i", "o", "n">>,
                name \o <<" ", "C", "o", "m", "p", "a", "n", "y">>,
                name >>
        ELSE <<>>)
    \o << ticker \o <<" ", "s", "t", "o", "c", "k">>,
          ticker \o <<" ", "c", "o", "m", "p", "a", "n", "y">>,
          ticker \o <<" ", "c", "o", "r", "p", "o", "r", "a", "t", "i", "o", "n">>,
          ticker >>

\* Line 161.
business_keywords ==
    << <<"i", "n", "c">>, <<"c", "o", "r", "p">>,
       <<"c", "o", "m", "p", "a", "n", "y">>,
       <<"c", "o", "r", "p", "o", "r", "a", "t", "i", "o", "n">>,
       <<"l", "t", "d">>,
       <<"t", "e", "c", "h", "n", "o", "l", "o", "g", "y">>,
       <<"s", "o", "f", "t", "w", "a", "r", "e">>,
       <<"s", "y", "s", "t", "e", "m", "s">> >>

\* str.lower() on the letters that the options use.
LowerChar(c) ==
    CASE c = "B" -> "b"
      [] c = "I" -> "i"
      [] c = "L" -> "l"
      [] c = "X" -> "x"
      [] OTHER -> c

lower(text) == [k \in 1..Len(text) |-> LowerChar(text[k])]

\* keyword in option_lower: a substring test.
Contains(text, word) ==
    \E k \in 0..(Len(text) - Len(word)) :
        SubSeq(text, k + 1, k + Len(word)) = word

\* Lines 163-164.
IsBusiness(option) ==
    \E k \in 1..Len(business_keywords) :
        Contains(lower(option), business_keywords[k])

\* The options that a disambiguation page may list.
Band == <<"B", "a", "n", "d">>
XLtd == <<"X", " ", "L", "t", "d">>
Inca == <<"I", "n", "c", "a">>
OptionLists == { <<>>, <<Band, XLtd>>, <<Inca>> }

\* What wikipedia.summary gives for a query.
SummaryOf(query) == <<"summary of ">> \o query

NotFound == <<"Wikipedia summary not found.">>

Query(q, auto, got) == [query |-> q, auto_suggest |-> auto, summary |-> got]

\* Lines 129-153: the company name and the search terms.
WikiStart ==
    /\ wiki_pc = "start"
    /\ \E info \in NameInfos :
          /\ company_name' = CompanyName(info)
          /\ search_terms' = SearchTerms(wiki_ticker, CompanyName(info))
    /\ term_i' = 1
    /\ wiki_pc' = "term"
    /\ UNCHANGED <<wiki_ticker, options, option_i, wiki_queries, wiki_summary,
                   fmtVars, indVars, appVars>>

\* Lines 155-158 and the handlers of lines 159, 176 and 178: the query for
\* the next term gives a summary, a disambiguation page, a page error or
\* another exception.
WikiTerm ==
    /\ wiki_pc = "term"
    /\ term_i <= Len(search_terms)
    /\ LET term == search_terms[term_i]
       IN  \/ /\ wiki_queries' = Append(wiki_queries, Query(term, TRUE, TRUE))
              /\ wiki_summary' = SummaryOf(term)
              /\ wiki_pc' = "returned"
              /\ UNCHANGED <<term_i, options, option_i>>
           \/ /\ wiki_queries' = Append(wiki_queries, Query(term, TRUE, FALSE))
              /\ \E opts \in OptionLists :
                    /\ options' = opts
                    /\ option_i' = 1
              /\ wiki_pc' = "options"
              /\ UNCHANGED <<term_i, wiki_summary>>
           \/ /\ wiki_queries' = Append(wiki_queries, Query(term, TRUE, FALSE))
              /\ \E error \in {"PageError", "Exception"} :
                    term_i' = term_i + 1
              /\ UNCHANGED <<wiki_pc, options, option_i, wiki_summary>>
    /\ UNCHANGED <<wiki_ticker, company_name, search_terms,
                   fmtVars, indVars, appVars>>

\* Lines 162-170: one iteration over e.options; a business-related option
\* is queried, and any exception moves on to the next option.
WikiOption ==
    /\ wiki_pc = "options"
    /\ option_i <= Len(options)
    /\ LET option == options[option_i]
       IN  IF IsBusiness(option)
              THEN \/ /\ wiki_queries' =
                            Append(wiki_queries, Query(option, FALSE, TRUE))
                      /\ wiki_summary' = SummaryOf(option)
                      /\ wiki_pc' = "returned"
                      /\ UNCHANGED option_i
                   \/ /\ wiki_queries' =
                            Append(wiki_queries, Query(option, FALSE, FALSE))
                      /\ option_i' = option_i + 1
                      /\ UNCHANGED <<wiki_pc, wiki_summary>>
           ELSE /\ option_i' = option_i + 1
                /\ UNCHANGED <<wiki_pc, wiki_queries, wiki_summary>>
    /\ UNCHANGED <<wiki_ticker, company_name, search_terms, term_i, options,
                   fmtVars, indVars, appVars>>

\* Lines 171-177: after the options, the first one is queried if there is
\* any; an exception, or no option, moves on to the next term.
WikiFirstOption ==
    /\ wiki_pc = "options"
    /\ option_i > Len(options)
    /\ IF options # <<>>
          THEN \/ /\ wiki_queries' =
                        Append(wiki_queries, Query(options[1], FALSE, TRUE))
                  /\ wiki_summary' = SummaryOf(options[1])
                  /\ wiki_pc' = "returned"
                  /\ UNCHANGED term_i
               \/ /\ wiki_queries' =
                        Append(wiki_queries, Query(options[1], FALSE, FALSE))
                  /\ term_i' = term_i + 1
                  /\ wiki_pc' = "term"
                  /\ UNCHANGED wiki_summary
       ELSE /\ term_i' = term_i + 1
            /\ wiki_pc' = "term"
            /\ UNCHANGED <<wiki_queries, wiki_summary>>
    /\ UNCHANGED <<wiki_ticker, company_name, search_terms, options, option_i,
                   fmtVars, indVars, appVars>>

\* Line 181: the terms are exhausted.
WikiNotFound ==
    /\ wiki_pc = "term"
    /\ term_i > Len(search_terms)
    /\ wiki_summary' = NotFound
    /\ wiki_pc' = "returned"
    /\ UNCHANGED <<wiki_ticker, company_name, search_terms, term_i, options,
                   option_i, wiki_queries, fmtVars, indVars, appVars>>

(***************************************************************************)
(* Specifications.  Spec is the session: the first run with the default    *)
(* input, then further runs on what the user enters, while time passes.    *)
(* SpecBatch is one run on a longer list of tickers.  SpecParse is the     *)
(* start of one run on each input text.  SpecFmt, SpecMA and SpecRSI apply *)
(* the formatter and the indicators to the values drawn by their initial   *)
(* states.  SpecWiki is one call of get_wikipedia_summary.                 *)
(***************************************************************************)
FmtIdle == mc_value = None /\ mc_text = <<"idle">>

IndIdle ==
    close = <<>> /\ ma50_last = PendingValue /\ rsi_last = PendingValue

\* The state when the page is opened: the widgets hold their defaults and
\* the first script run is about to start.
AppStart(text, button, per) ==
    /\ ticker_input = text /\ analyze_button = button /\ period = per
    /\ pc = "ready"
    /\ tickers = <<>> /\ bd_tickers = <<>> /\ loop_i = 0 /\ all_data = <<>>
    /\ progress_bar = <<>> /\ status_text = <<>> /\ ui = <<>>
    /\ cache = {} /\ clock = 0 /\ provider_calls = 0 /\ call_log = <<>>
    /\ run_start = 0

\* No call of get_wikipedia_summary is in progress.
WikiIdle ==
    /\ wiki_pc = "idle" /\ wiki_ticker = <<>> /\ company_name = <<>>
    /\ search_terms = <<>> /\ term_i = 0 /\ options = <<>> /\ option_i = 0
    /\ wiki_queries = <<>> /\ wiki_summary = Pending

AppIdle == AppStart(<<>>, FALSE, "6mo") /\ WikiIdle

Init == AppStart(DefaultInput, FALSE, "6mo") /\ FmtIdle /\ IndIdle /\ WikiIdle

Next ==
    \/ UserInput
    \/ MainStart
    \/ LoopBegin
    \/ LoopFetch
    \/ MainFinish
    \/ Tick

Spec == Init /\ [][Next]_vars

InitBatch ==
    /\ \E text \in BatchInputs : AppStart(text, FALSE, "6mo")
    /\ FmtIdle /\ IndIdle /\ WikiIdle

NextBatch ==
    \/ MainStart
    \/ LoopBegin
    \/ LoopFetch
    \/ MainFinish

SpecBatch == InitBatch /\ [][NextBatch]_vars

InitParse ==
    /\ \E text \in ParseInputs, button \in BOOLEAN :
          AppStart(text, button, "6mo")
    /\ FmtIdle /\ IndIdle /\ WikiIdle

SpecParse == InitParse /\ [][MainStart]_vars

FmtInit == mc_value \in MarketCaps /\ mc_text = Pending

MAInit ==
    close \in MASeries /\ ma50_last = PendingValue /\ rsi_last = PendingValue

RSIInit ==
    close \in RSISeries /\ ma50_last = PendingValue /\ rsi_last = PendingValue

\* get_stock_data, line 112: the formatter applied to info's marketCap.
FormatMarketCap ==
    /\ mc_text = Pending
    /\ mc_text' = format_market_cap(mc_value)
    /\ UNCHANGED <<mc_value, indVars, appVars, wikiVars>>

\* get_stock_data, lines 100 and 115.
ComputeMA50 ==
    /\ close # <<>> /\ ma50_last = PendingValue
    /\ ma50_last' = Surfaced(RollingMean(close, MA_WINDOW))
    /\ UNCHANGED <<close, rsi_last, fmtVars, appVars, wikiVars>>

\* get_stock_data, lines 103 and 114.
ComputeRSI ==
    /\ close # <<>> /\ rsi_last = PendingValue
    /\ rsi_last' = Surfaced(RSIIndicator(close, RSI_WINDOW))
    /\ UNCHANGED <<close, ma50_last, fmtVars, appVars, wikiVars>>

InitFmt == FmtInit /\ IndIdle /\ AppIdle
InitMA == MAInit /\ FmtIdle /\ AppIdle
InitRSI == RSIInit /\ FmtIdle /\ AppIdle

\* The tickers of which the summary is asked.
WikiTickers == { <<"T">>, <<"U", "V">> }

\* get_wikipedia_summary has been called.
WikiInit ==
    /\ wiki_pc = "start" /\ wiki_ticker \in WikiTickers /\ company_name = <<>>
    /\ search_terms = <<>> /\ term_i = 0 /\ options = <<>> /\ option_i = 0
    /\ wiki_queries = <<>> /\ wiki_summary = Pending

InitWiki ==
    WikiInit /\ FmtIdle /\ IndIdle /\ AppStart(<<>>, FALSE, "6mo")

NextWiki ==
    \/ WikiStart
    \/ WikiTerm
    \/ WikiOption
    \/ WikiFirstOption
    \/ WikiNotFound

\* Every query returns or raises, so a call that has started keeps taking
\* steps until it returns.
SpecWiki == InitWiki /\ [][NextWiki]_vars /\ WF_vars(NextWiki)

SpecFmt == InitFmt /\ [][FormatMarketCap]_vars
SpecMA == InitMA /\ [][ComputeMA50]_vars
SpecRSI == InitRSI /\ [][ComputeRSI]_vars

(***************************************************************************)
(* Properties of the indicators.                                           *)
(***************************************************************************)
\* The sum of a sequence of numbers.
RECURSIVE SeqSum(_)
SeqSum(q) ==
    IF q = <<>> THEN 0
    ELSE IF Len(q) = 1 THEN q[1]
    ELSE SeqSum(SubSeq(q, 1, Len(q) \div 2))
         + SeqSum(SubSeq(q, Len(q) \div 2 + 1, Len(q)))

\* C9: the surfaced moving average is None for a series of fewer than 50
\* closing prices, and otherwise the arithmetic mean of the last 50 closing
\* prices of the series: 50 times its value is their sum.
C9_MovingAverage ==
    ma50_last # PendingValue =>
        IF Len(close) < 50 THEN ma50_last = NoneValue
        ELSE /\ ma50_last.kind = "num"
             /\ ma50_last.den = WNat(50)
             /\ ma50_last.num =
                    WNat(SeqSum(SubSeq(close, Len(close) - 49, Len(close))))

\* A series of 52 prices that is not constant has a moving average.
C9_Witness ==
    /\ Len(close) = 52 /\ close[1] # close[2] /\ close[2] # close[52]
    /\ ma50_last.kind = "num"

\* a * b^k
RECURSIVE WMulPow(_, _, _)
WMulPow(a, b, k) == IF k = 0 THEN a ELSE WMul(WMulPow(a, b, k - 1), b)

\* 14^(n-1) times Wilder's average of xs at its last position n: the sum
\* over i >= 2 of 13^(n-i) * 14^(i-2) * xs[i] (the first difference is 0).
RECURSIVE WilderScaled(_, _)
WilderScaled(xs, i) ==
    IF i < 2 THEN WZero
    ELSE WAdd(WilderScaled(xs, i - 1),
              WMulPow(WMulPow(WNat(xs[i]), 13, Len(xs) - i), 14, i - 2))

Gains(xs) ==
    [i \in 1..Len(xs) |->
        IF i = 1 \/ xs[i] <= xs[i - 1] THEN 0 ELSE xs[i] - xs[i - 1]]
Losses(xs) ==
    [i \in 1..Len(xs) |->
        IF i = 1 \/ xs[i] >= xs[i - 1] THEN 0 ELSE xs[i - 1] - xs[i]]

WTimes100(a) == WMul(WMul(a, 10), 10)

\* C10: the surfaced RSI is None for a series of fewer than 14 observations;
\* otherwise it is the latest value of 100 - 100 / (1 + avgGain / avgLoss),
\* that is 100 * avgGain / (avgGain + avgLoss), of the 14-period smoothed
\* averages; it lies in [0, 100]; and it is 100 when the smoothed average
\* loss is zero.
C10_RSI ==
    rsi_last # PendingValue =>
        IF Len(close) < 14 THEN rsi_last = NoneValue
        ELSE LET avgGain == WilderScaled(Gains(close), Len(close))
                 avgLoss == WilderScaled(Losses(close), Len(close))
             IN  /\ rsi_last.kind = "num"
                 /\ rsi_last.den # WZero
                 /\ WLE(WZero, rsi_last.num)
                 /\ WLE(rsi_last.num, WTimes100(rsi_last.den))
                 /\ avgLoss = WZero => rsi_last.num = WTimes100(rsi_last.den)
                 /\ avgLoss # WZero =>
                        /\ rsi_last.num = WTimes100(avgGain)
                        /\ rsi_last.den = WAdd(avgGain, avgLoss)

\* A series of 14 prices with gains and losses has an RSI strictly between 0
\* and 100.
C10_Witness ==
    /\ Len(close) = 14
    /\ rsi_last.kind = "num"
    /\ rsi_last.num # WZero
    /\ rsi_last.num # WTimes100(rsi_last.den)

(***************************************************************************)
(* Properties of the formatter.                                            *)
(***************************************************************************)
\* 10^e as a digit sequence.
Pow10(e) == <<1>> \o [k \in 1..e |-> 0]

\* a < b for two digit sequences of the same length.
RECURSIVE LexLess(_, _)
LexLess(a, b) ==
    /\ a # <<>>
    /\ \/ a[1] < b[1]
       \/ a[1] = b[1] /\ LexLess(Tail(a), Tail(b))

\* a >= b for two numbers given by their digits.
NumGE(a, b) ==
    \/ Len(a) > Len(b)
    \/ Len(a) = Len(b) /\ ~LexLess(a, b)

IsDigitChar(c) == \E d \in 0..9 : DigitChars[d + 1] = c
CharDigit(c) == CHOOSE d \in 0..9 : DigitChars[d + 1] = c

\* text is "$", the digits of a number of hundredths h with a point before its
\* last two digits, and the suffix, where h is the multiple of 1/100 nearest to
\* v / 10^e.
IsScaledForm(text, v, e, suffix) ==
    LET n     == Len(text)
        cs    == SubSeq(text, 2, n - 4) \o SubSeq(text, n - 2, n - 1)
        floor == SubSeq(v, 1, Len(v) - (e - 2))
        rest  == SubSeq(v, Len(v) - (e - 2) + 1, Len(v))
        half  == <<5>> \o [k \in 1..(e - 3) |-> 0]
    IN  /\ n >= 6
        /\ text[1] = "$" /\ text[n] = suffix /\ text[n - 3] = "."
        /\ \A k \in 1..Len(cs) : IsDigitChar(cs[k])
        /\ cs[1] # "0"
        /\ LET h == [k \in 1..Len(cs) |-> CharDigit(cs[k])]
           IN  \/ h = floor /\ ~LexLess(half, rest)
               \/ h = IncDigits(floor) /\ ~LexLess(rest, half)

\* text is "$" and the digits of v, a comma before every group of three digits
\* counted from the right, and nothing else.
IsPlainForm(text, v) ==
    LET n    == Len(v)
        body == Tail(text)
        m    == Len(body)
    IN  /\ text # <<>> /\ text[1] = "$"
        /\ m = n + (n - 1) \div 3
        /\ \A k \in 1..n :
              body[m + 1 - (k + (k - 1) \div 3)] = DigitChars[v[n + 1 - k] + 1]
        /\ \A j \in 1..m : j % 4 = 0 => body[m + 1 - j] = ","

\* C1: the form of the text is selected by descending threshold: at least
\* 10^12 the value over 10^12 with two decimals and "T"; otherwise at least
\* 10^9 the "B" form; otherwise at least 10^6 the "M" form; otherwise the
\* comma-grouped integer without a suffix; None and zero give "N/A".
C1_FormByThreshold ==
    mc_text # Pending /\ mc_text # <<"idle">> =>
        IF mc_value = None \/ mc_value = <<0>> THEN mc_text = <<"N", "/", "A">>
        ELSE IF NumGE(mc_value, Pow10(12))
             THEN IsScaledForm(mc_text, mc_value, 12, "T")
        ELSE IF NumGE(mc_value, Pow10(9))
             THEN IsScaledForm(mc_text, mc_value, 9, "B")
        ELSE IF NumGE(mc_value, Pow10(6))
             THEN IsScaledForm(mc_text, mc_value, 6, "M")
        ELSE IsPlainForm(mc_text, mc_value)

\* 999,999,999,999 is below 10^12 and is formatted in billions.
C1_Witness ==
    /\ mc_value = [k \in 1..12 |-> 9]
    /\ mc_text = <<"$", "1", "0", "0", "0", ".", "0", "0", "B">>

Listed_2_5T == <<2, 5>> \o [k \in 1..11 |-> 0]
Listed_3_4B == <<3, 4>> \o [k \in 1..8 |-> 0]
Listed_750K == <<7, 5, 0, 0, 0, 0>>
Listed_999 == <<9, 9, 9>>

ListedOthers ==
    /\ mc_value = Listed_2_5T => mc_text = <<"$", "2", ".", "5", "0", "T">>
    /\ mc_value = Listed_3_4B => mc_text = <<"$", "3", ".", "4", "0", "B">>
    /\ mc_value = Listed_999 => mc_text = <<"$", "9", "9", "9">>
    /\ mc_value = <<0>> \/ mc_value = None => mc_text = <<"N", "/", "A">>

\* C2 as stated: 2,500,000,000,000 gives "$2.50T", 3,400,000,000 "$3.40B",
\* 750,000 "$0.75M", 999 "$999", zero and None "N/A".
C2_ListedValues_AsStated ==
    mc_text # Pending /\ mc_text # <<"idle">> =>
        /\ ListedOthers
        /\ mc_value = Listed_750K =>
               mc_text = <<"$", "0", ".", "7", "5", "M">>

\* C2 amended: the same, except that 750,000, being below 10^6, gives the
\* comma-grouped "$750,000".
C2_ListedValues ==
    mc_text # Pending /\ mc_text # <<"idle">> =>
        /\ ListedOthers
        /\ mc_value = Listed_750K =>
               mc_text = <<"$", "7", "5", "0", ",", "0", "0", "0">>

C2_Witness ==
    /\ mc_value = Listed_750K
    /\ mc_text = <<"$", "7", "5", "0", ",", "0", "0", "0">>

(***************************************************************************)
(* Properties of the application.                                          *)
(***************************************************************************)
\* The calls of get_stock_data made by the current run.
RunCalls == SubSeq(call_log, run_start + 1, Len(call_log))

RunEnded == pc \in {"done", "crashed"}

Kinds == {ui[k].kind : k \in 1..Len(ui)}

Displayed == {ui[k] : k \in 1..Len(ui)}

\* The tickers of the first n entries of list whose call in calls gave a
\* result, in the order of list.
Succeeded(list, calls, n) ==
    LET pairs == [k \in 1..n |-> [ticker |-> list[k], ok |-> calls[k].value.ok]]
        good  == SelectSeq(pairs, LAMBDA p : p.ok)
    IN  [k \in 1..Len(good) |-> good[k].ticker]

TickersOf(records) == [k \in 1..Len(records) |-> records[k].Ticker]

\* C3 as stated: a run on a non-empty ticker list in which every fetch
\* failed ends normally in a 'no data' state that main reports: no exception
\* escapes, and no table, chart or download is displayed.
C3_NoDataState ==
    (RunEnded /\ bd_tickers # <<>> /\ all_data = <<>>)
        => /\ pc = "done"
           /\ NoDataMain \in Displayed
           /\ Kinds \cap {"exception", "table", "chart", "download"} = {}

\* C4: at every point of a run the collected results are the tickers, among
\* the first ten of the parsed list, whose fetch has succeeded, in the order
\* of the list (so one failure among N <= 10 leaves N-1 results); the list
\* that build_dashboard returns and the rows of the table are that list.
C4_ResultsInInputOrder ==
    pc \in {"loop_top", "fetching", "finish", "done", "crashed"} =>
        LET n        == IF Len(tickers) < 10 THEN Len(tickers) ELSE 10
            firstTen == [k \in 1..n |-> tickers[k]]
            expected == Succeeded(firstTen, RunCalls, Len(RunCalls))
        IN  /\ Len(RunCalls) = loop_i /\ loop_i <= n
            /\ \A k \in 1..loop_i : RunCalls[k].key[1] = firstTen[k]
            /\ TickersOf(all_data) = expected
            /\ Len(all_data) <= n
            /\ (RunEnded /\ n > 0) => loop_i = n
            /\ (RunEnded /\ expected # <<>>) =>
                  /\ TickersOf(BuildDashboardReturn(all_data).all_data) = expected
                  /\ \E k \in 1..Len(ui) :
                        /\ ui[k].kind = "table"
                        /\ TickersOf(ui[k].arg) = expected

\* A finished run of three or more tickers in which only the second fetch
\* failed.
C4_Witness ==
    /\ pc = "done"
    /\ Len(bd_tickers) >= 3
    /\ Len(all_data) = Len(bd_tickers) - 1
    /\ ~RunCalls[2].value.ok
    /\ all_data[1].Ticker # all_data[2].Ticker

\* The pieces of a text between its commas, by position.
CommaAt(text) == {k \in 1..Len(text) : text[k] = ","}

PieceAt(text, p) ==
    LET commas == CommaAt(text) \cup {0, Len(text) + 1}
        lo == CHOOSE c \in commas : Cardinality({d \in commas : d < c}) = p - 1
        hi == CHOOSE c \in commas : Cardinality({d \in commas : d < c}) = p
    IN  SubSeq(text, lo + 1, hi - 1)

RECURSIVE Trimmed(_)
Trimmed(s) ==
    IF s = <<>> THEN s
    ELSE IF Head(s) = " " THEN Trimmed(Tail(s))
    ELSE IF s[Len(s)] = " " THEN Trimmed(SubSeq(s, 1, Len(s) - 1))
    ELSE s

Capital == ("a" :> "A") @@ ("b" :> "B") @@ ("c" :> "C")

Capitalised(s) ==
    [k \in 1..Len(s) |-> IF s[k] \in DOMAIN Capital THEN Capital[s[k]] ELSE s[k]]

ExpectedTickers(text) ==
    LET all == [p \in 1..(Cardinality(CommaAt(text)) + 1) |->
                   Capitalised(Trimmed(PieceAt(text, p)))]
    IN  SelectSeq(all, LAMBDA s : s # <<>>)

\* C5: once main has read the input, the list that is analysed is the
\* trimmed, upper-cased, non-empty comma-separated pieces of the text in
\* order, cut to the first 10; its length is min(10, number of pieces); the
\* truncation warning is displayed exactly when there are more than 10.
C5_ParsedList ==
    pc # "ready" =>
        LET pieces == ExpectedTickers(ticker_input)
            n      == Len(pieces)
            m      == IF n < 10 THEN n ELSE 10
        IN  /\ bd_tickers = [k \in 1..m |-> pieces[k]]
            /\ Len(bd_tickers) = m
            /\ (\E e \in Displayed : e.kind = "warning") <=> n > 10
            /\ n > 10 => TruncationWarning(n) \in Displayed

\* A text of more than ten tickers with blanks around a lower-case ticker
\* and an empty piece: ten are kept and the warning is displayed.
C5_Witness ==
    /\ pc = "loop_top"
    /\ Len(ExpectedTickers(ticker_input)) > 10
    /\ Len(ExpectedTickers(ticker_input)) <= Cardinality(CommaAt(ticker_input))
    /\ Len(bd_tickers) = 10
    /\ \E k \in 1..Len(ticker_input) - 1 :
          ticker_input[k] = " " /\ ticker_input[k + 1] = "b"
    /\ bd_tickers[1] = <<"B">>
    /\ TruncationWarning(Len(tickers)) \in Displayed

\* C6 as stated: every call of get_stock_data that failed, for whatever
\* reason, gave 'no result' and displayed one inline error message for its
\* ticker.
C6_InlineErrorPerFailure ==
    \A k \in 1..Len(call_log) :
        ~call_log[k].value.ok =>
            /\ call_log[k].value = NoData
            /\ call_log[k].msgs = <<FetchError(call_log[k].key[1])>>

\* The latest call before call k that ran the body of get_stock_data with
\* the arguments of call k (0 when there is none).
FetchedBefore(k) ==
    LET earlier == {j \in 1..(k - 1) :
                      call_log[j].key = call_log[k].key /\ call_log[j].executed}
    IN  IF earlier = {} THEN 0
        ELSE CHOOSE j \in earlier : \A h \in earlier : h <= j

\* C7: a call made less than 5 minutes after a successful fetch with the
\* same ticker and window returns the value of that fetch (fundamentals and
\* price series) without calling the provider; a call made 5 minutes or
\* more after the fetch calls the provider again.  The provider is called
\* once per execution of the body.
C7_CachedForFiveMinutes ==
    /\ provider_calls =
          Cardinality({k \in 1..Len(call_log) : call_log[k].executed})
    /\ \A k \in 1..Len(call_log) :
          LET j == FetchedBefore(k)
          IN  IF j = 0 THEN call_log[k].executed
              ELSE LET age == call_log[k].time - call_log[j].time
                   IN  /\ (call_log[j].value.ok /\ age < 5 * 60) =>
                             /\ ~call_log[k].executed
                             /\ call_log[k].value = call_log[j].value
                       /\ age >= 5 * 60 => call_log[k].executed

\* One session with both cases: a call answered from a successful fetch made
\* some time before, and a call that fetched again 5 minutes after the
\* first fetch, which had succeeded.
C7_Witness ==
    /\ \E k \in 1..Len(call_log) :
          /\ FetchedBefore(k) # 0
          /\ ~call_log[k].executed
          /\ call_log[k].value.ok
          /\ call_log[k].time > call_log[FetchedBefore(k)].time
    /\ \E k \in 1..Len(call_log) :
          /\ FetchedBefore(k) # 0
          /\ call_log[k].executed
          /\ call_log[FetchedBefore(k)].value.ok
          /\ call_log[k].time - call_log[FetchedBefore(k)].time = 5 * 60

BlankOrComma(text) == \A k \in 1..Len(text) : text[k] \in {" ", ","}

NothingFetched ==
    /\ pc = "done"
    /\ call_log = <<>> /\ provider_calls = 0 /\ cache = {}
    /\ "chart" \notin Kinds

\* C8 as stated: for a text that is empty or holds only blanks and commas,
\* main reports 'no valid ticker', fetches nothing and shows no chart,
\* whether or not the button was pressed.
C8_NoValidTicker_AsStated ==
    (pc # "ready" /\ BlankOrComma(ticker_input)) =>
        /\ NoValidTicker \in Displayed
        /\ NothingFetched

\* C8: for a text that is empty or holds only blanks and commas, main
\* fetches nothing and shows no chart; it reports 'no valid ticker' when
\* the button was pressed or the text is not empty, and displays nothing
\* for the empty text without the button.
C8_NoValidTicker ==
    (pc # "ready" /\ BlankOrComma(ticker_input)) =>
        /\ NothingFetched
        /\ (analyze_button \/ ticker_input # <<>>) => ui = <<NoValidTicker>>
        /\ (~analyze_button /\ ticker_input = <<>>) => ui = <<>>

\* A text of blanks and commas, without the button, has been reported.
C8_Witness ==
    /\ pc = "done"
    /\ BlankOrComma(ticker_input)
    /\ ~analyze_button
    /\ " " \in {ticker_input[k] : k \in 1..Len(ticker_input)}
    /\ "," \in {ticker_input[k] : k \in 1..Len(ticker_input)}
    /\ ui = <<NoValidTicker>>

\* The positions of symbol s in a list of tickers.
Occurrences(list, s) == {k \in 1..Len(list) : list[k] = s}

\* C11: duplicates are neither merged nor dropped.  The list analysed holds
\* each symbol as often as the first ten pieces of the text do, and
\* get_stock_data is called once per occurrence; when a run has ended and
\* the calls for a symbol that occurs k times succeeded, the result list and
\* the table hold k entries for it, at the places of its occurrences among
\* the successful tickers.
C11_DuplicatesKept ==
    pc \in {"loop_top", "fetching", "finish", "done", "crashed"} =>
        LET pieces == ExpectedTickers(ticker_input)
            n      == IF Len(pieces) < 10 THEN Len(pieces) ELSE 10
            okAt   == {k \in 1..Len(RunCalls) : RunCalls[k].value.ok}
            rank(p) == Cardinality({k \in okAt : k <= p})
        IN  \A s \in {pieces[k] : k \in 1..n} :
              LET occ == {k \in 1..n : pieces[k] = s}
              IN  /\ Occurrences(bd_tickers, s) = occ
                  /\ \A p \in occ : p <= loop_i => RunCalls[p].key[1] = s
                  /\ (RunEnded /\ occ \subseteq okAt) =>
                        /\ Cardinality(Occurrences(TickersOf(all_data), s))
                              = Cardinality(occ)
                        /\ Occurrences(TickersOf(all_data), s)
                              = {rank(p) : p \in occ}
                        /\ \E t \in 1..Len(ui) :
                              /\ ui[t].kind = "table"
                              /\ Occurrences(TickersOf(ui[t].arg), s)
                                    = {rank(p) : p \in occ}

\* A finished run on "b, ,a,b" in which every fetch succeeded: B is in the
\* results twice, around A.
C11_Witness ==
    /\ pc = "done"
    /\ bd_tickers = << <<"B">>, <<"A">>, <<"B">> >>
    /\ TickersOf(all_data) = << <<"B">>, <<"A">>, <<"B">> >>
    /\ Len(RunCalls) = 3
    /\ RunCalls[1].executed /\ ~RunCalls[3].executed

(***************************************************************************)
(* Properties of get_wikipedia_summary.                                    *)
(***************************************************************************)
NameSuffixes ==
    << <<" ", "I", "n", "c">>,
       <<" ", "C", "o", "r", "p", "o", "r", "a", "t", "i", "o", "n">>,
       <<" ", "C", "o", "m", "p", "a", "n", "y">>,
       <<>> >>

TickerSuffixes ==
    << <<" ", "s", "t", "o", "c", "k">>,
       <<" ", "c", "o", "m", "p", "a", "n", "y">>,
       <<" ", "c", "o", "r", "p", "o", "r", "a", "t", "i", "o", "n">>,
       <<>> >>

\* The fallback order: the name variants if a name is known, then the
\* ticker variants.
FallbackOrder ==
    (IF company_name # <<>>
        THEN [k \in 1..4 |-> company_name \o NameSuffixes[k]] ELSE <<>>)
    \o [k \in 1..4 |-> wiki_ticker \o TickerSuffixes[k]]

\* The queries for search terms, without those for disambiguation options.
TermQueries ==
    LET asked == SelectSeq(wiki_queries, LAMBDA q : q.auto_suggest)
    IN  [k \in 1..Len(asked) |-> asked[k].query]

LongestOptions ==
    CHOOSE n \in 0..8 :
        /\ \E opts \in OptionLists : Len(opts) = n
        /\ \A opts \in OptionLists : Len(opts) <= n

C12_Safe ==
    wiki_pc \in {"term", "options", "returned"} =>
        /\ Len(TermQueries) <= Len(FallbackOrder)
        /\ TermQueries = SubSeq(FallbackOrder, 1, Len(TermQueries))
        /\ Len(wiki_queries) <= Len(FallbackOrder) * (2 + LongestOptions)
        /\ \A k \in 1..Len(wiki_queries) :
              wiki_queries[k].summary =>
                  /\ k = Len(wiki_queries)
                  /\ wiki_pc = "returned"
                  /\ wiki_summary = SummaryOf(wiki_queries[k].query)
        /\ wiki_pc = "returned" =>
              \/ wiki_queries # <<>> /\ wiki_queries[Len(wiki_queries)].summary
              \/ /\ wiki_summary = NotFound
                 /\ TermQueries = FallbackOrder
        /\ wiki_pc # "returned" => wiki_summary = Pending

\* C12: whatever the encyclopedia answers, the search terms are queried in
\* the order name + Inc, Corporation, Company, the name (if a name is
\* known), ticker + stock, company, corporation, the ticker; the number of
\* queries is bounded; the first summary obtained is returned, and the
\* fixed string when every term has been tried without one; the call
\* always returns.
C12_FallbackQueries == []C12_Safe /\ <>(wiki_pc = "returned")

\* The fixed string has been returned after all eight terms of a ticker
\* with a known name, with disambiguation options queried on the way.
C12_Witness ==
    /\ wiki_pc = "returned"
    /\ wiki_summary = NotFound
    /\ company_name # <<>>
    /\ Len(TermQueries) = 8
    /\ \E k \in 1..Len(wiki_queries) :
          ~wiki_queries[k].auto_suggest /\ wiki_queries[k].query = XLtd
    /\ \E k \in 1..Len(wiki_queries) :
          ~wiki_queries[k].auto_suggest /\ wiki_queries[k].query = Band

\* Fractions n/d as <<n, d>>.
FractionLE(a, b) == a[1] * b[2] <= b[1] * a[2]

\* C13 as stated: every value that the progress indicator shows equals
\* completed/total, where completed is the number of tickers whose fetch
\* has finished.
C13_ProgressIsCompleted ==
    (pc \in {"loop_top", "fetching", "finish"} /\ progress_bar # <<>>) =>
        progress_bar[1] * Len(bd_tickers) = loop_i * progress_bar[2]

C13_ProgressShown ==
    LET total == Len(bd_tickers)
    IN  /\ pc \in {"loop_top", "fetching", "finish"} =>
              /\ Len(RunCalls) = loop_i
              /\ \A k \in 1..loop_i : RunCalls[k].key[1] = bd_tickers[k]
        /\ pc = "loop_top" =>
              progress_bar = IF loop_i = 0 THEN <<0, 1>> ELSE <<loop_i, total>>
        /\ pc = "fetching" => progress_bar = <<loop_i + 1, total>>
        /\ pc = "finish" => progress_bar = <<total, total>>
        /\ RunEnded => progress_bar = <<>>

C13_ProgressAdvances ==
    (progress_bar # <<>> /\ progress_bar' # <<>>)
        => FractionLE(progress_bar, progress_bar')

\* C13: the tickers are fetched one at a time in input order and the
\* progress indicator never goes back; it shows 0 before the loop, and from
\* just before the fetch of the k-th ticker until just before the next one
\* it shows k/total, so during a fetch it is one ticker ahead of the
\* fetches that have finished; it is emptied after the loop.
C13_ProgressBeforeFetch == []C13_ProgressShown /\ [][C13_ProgressAdvances]_vars

\* The second of three fetches is in progress and the indicator shows 2/3.
C13_Witness ==
    /\ pc = "fetching"
    /\ loop_i = 1
    /\ Len(RunCalls) = 1
    /\ progress_bar = <<2, 3>>

\* C14: a call made less than 5 minutes after a failed fetch with the same
\* ticker and window does not run the body again and yields 'no result'
\* from the cache, so the ticker is left out of the results of its run even
\* if the provider would answer by then; 5 minutes after the failed fetch
\* the provider is asked again.
C14_FailureMemoised ==
    /\ \A k \in 1..Len(call_log) :
          LET j == FetchedBefore(k)
          IN  (j # 0 /\ ~call_log[j].value.ok) =>
                 LET age == call_log[k].time - call_log[j].time
                 IN  /\ age < 5 * 60 =>
                           /\ ~call_log[k].executed
                           /\ call_log[k].value = NoData
                     /\ age >= 5 * 60 => call_log[k].executed
    /\ pc \in {"loop_top", "fetching", "finish", "done", "crashed"} =>
          /\ Len(all_data) =
                Cardinality({k \in 1..Len(RunCalls) : RunCalls[k].value.ok})
          /\ \A k \in 1..Len(RunCalls) :
                (~RunCalls[k].executed /\ ~RunCalls[k].value.ok) =>
                    \A d \in 1..Len(all_data) :
                        all_data[d].Ticker # RunCalls[k].key[1]

\* One session in which a ticker whose fetch had failed was answered from
\* the cache some time later, and fetched again, successfully, 5 minutes
\* after the failure.
C14_Witness ==
    /\ \E k \in 1..Len(call_log) :
          /\ FetchedBefore(k) # 0
          /\ ~call_log[FetchedBefore(k)].value.ok
          /\ ~call_log[k].executed
          /\ call_log[k].time > call_log[FetchedBefore(k)].time
    /\ \E k \in 1..Len(call_log) :
          /\ FetchedBefore(k) # 0
          /\ ~call_log[FetchedBefore(k)].value.ok
          /\ call_log[k].executed /\ call_log[k].value.ok
          /\ call_log[k].time - call_log[FetchedBefore(k)].time = 5 * 60

====
